---------------------------- MODULE Spec2Model ----------------------------
(***************************************************************************)
(* Model of the music-events aggregation pipeline (src/main.py and         *)
(* src/ticketmaster.py): the two Eventim HTML adapters, the Ticketmaster   *)
(* API adapter, the normalizers parse_eventim_event / parse_events, the    *)
(* distance filter and the orchestrating handler manual_scrape.            *)
(*                                                                         *)
(* Conventions.                                                            *)
(*  - A Python Optional is a sequence of length <= 1: None is <<>>, a      *)
(*    present value x is <<x>>.                                            *)
(*  - A Python str is a sequence of string tokens, "" is <<>>, and string  *)
(*    concatenation / f-string formatting is \o on the tokens.             *)
(*  - A coordinate tuple (lat, lon) is <<lat, lon>> in whole degrees; the  *)
(*    value None for coordinates is <<>>.                                  *)
(*  - src/main.py lines 317-321 and src/ticketmaster.py line 46 are        *)
(*    mis-indented in the source; they are read with the indentation the   *)
(*    enclosing try/except/finally and if/else require: the Ticketmaster   *)
(*    call and the aggregation are inside manual_scrape's try block, the   *)
(*    status print is the body of the else branch.                         *)
(***************************************************************************)
EXTENDS Integers, Sequences, FiniteSets, TLC

(***************************************************************************)
(* Bounds of the model.                                                    *)
(***************************************************************************)
\* Number of monitored artists taken from TARGET_ARTISTS (15 in the source).
NumArtists == 2

(***************************************************************************)
(* Program constants.                                                      *)
(***************************************************************************)
WROCLAW_COORDS == <<51, 17>>
MAX_DISTANCE_KM == 700
TM_MAX_DISTANCE_KM == 1000
MaxPerArtist == 5

ArtistNames ==
  << <<"Tiesto">>, <<"David Guetta">>, <<"Martin Garrix">>,
     <<"Armin van Buuren">>, <<"Calvin Harris">>, <<"Hardwell">>,
     <<"Dimitri Vegas & Like Mike">>, <<"Fisher">>, <<"Charlotte de Witte">>,
     <<"Carl Cox">>, <<"Adam Beyer">>, <<"Amelie Lens">>, <<"Tale Of Us">>,
     <<"Boris Brejcha">>, <<"Kolsch">> >>

TARGET_ARTISTS == SubSeq(ArtistNames, 1, NumArtists)

EVENTIM_PL == <<"eventim.pl">>
EVENTIM_DE == <<"eventim.de">>
TICKETMASTER == <<"ticketmaster">>

(***************************************************************************)
(* Python values.                                                          *)
(***************************************************************************)
None == <<>>
Some(x) == <<x>>
EmptyStr == <<>>

\* dict.get(key, default) on an optional field.
GetOr(opt, default) == IF opt = None THEN default ELSE opt[1]

\* seq[:n]
Take(seq, n) == SubSeq(seq, 1, IF Len(seq) < n THEN Len(seq) ELSE n)

\* str.startswith('/')
StartsWithSlash(s) == s # EmptyStr /\ Head(s) = "/"

Abs(n) == IF n < 0 THEN -n ELSE n

RECURSIVE IsqrtIn(_, _, _)
IsqrtIn(n, lo, hi) ==
  IF lo >= hi THEN lo
  ELSE LET mid == (lo + hi + 1) \div 2
       IN IF mid * mid <= n THEN IsqrtIn(n, mid, hi) ELSE IsqrtIn(n, lo, mid - 1)

\* Integer square root (floor).
Isqrt(n) == IsqrtIn(n, 0, 32768)

(***************************************************************************)
(* geopy.distance.geodesic(WROCLAW_COORDS, coords).kilometers.             *)
(* geopy rejects a latitude outside [-90, 90] with ValueError; otherwise   *)
(* the distance is approximated on whole degrees around the reference      *)
(* point (111 km per degree of latitude, 70 km per degree of longitude at  *)
(* 51 N), rounded down to whole kilometres.                                *)
(***************************************************************************)
GeodesicRaises(coords) == Abs(coords[1]) > 90

GeodesicKm(coords) ==
  LET dlat == 111 * (coords[1] - WROCLAW_COORDS[1])
      dlon == 70 * (coords[2] - WROCLAW_COORDS[2])
  IN Isqrt(dlat * dlat + dlon * dlon)


VARIABLES
  pc,            \* position of manual_scrape
  api_key,       \* TicketmasterScraper.api_key (os.getenv("TM_API_KEY"))
  session,       \* EventScraper.session: "None" or "open"
  tm_session,    \* the ClientSession of scrape_events: "None", "open", "closed"
  i,             \* index of the artist the running adapter loop is at
  events,        \* eventim_pl_events, eventim_de_events, ticketmaster_events
  all_events,    \* the aggregate list handed to save_events_to_db
  persisted,     \* rows inserted by save_events_to_db
  pending,       \* the exception propagating out of the try block, if any
  outcome,       \* what manual_scrape returned or raised
  clock,         \* datetime.now()
  unknown_place, \* what the geocoding service answers for the name "Unknown"
  fetched,       \* history: per adapter and artist, the response and its events
  netlog,        \* history: requests and rate-limit sleeps, in order
  opened,        \* history: the HTTP sessions opened during the run
  norm           \* harness state for the normalizers taken alone

vars ==
  << pc, api_key, session, tm_session, i, events, all_events, persisted,
     pending, outcome, clock, unknown_place, fetched, netlog, opened, norm >>

(***************************************************************************)
(* GeoResolver: EventScraper.get_city_coordinates and is_within_range.     *)
(***************************************************************************)
\* Nominatim.geocode(city_name) when the service answers: None when nothing
\* matches, otherwise the (latitude, longitude) of the match.
Gazetteer(city_name) ==
  CASE city_name = <<"Berlin">>  -> <<52, 13>>
    [] city_name = <<"Milano">>  -> <<45, 9>>
    [] city_name = <<"Paris">>   -> <<48, 2>>
    [] city_name = <<"Nowhere">> -> <<95, 17>>
    [] city_name = <<"Unknown">> -> unknown_place
    [] OTHER -> None

\* geo_up = FALSE: the lookup raises (network error, timeout), which is
\* logged and swallowed.
get_city_coordinates(city_name, geo_up) ==
  IF geo_up THEN Gazetteer(city_name) ELSE None

\* Variant: the range check accepts every resolved place.
is_within_range_always(city_coords) == TRUE

is_within_range(city_coords) ==
  IF GeodesicRaises(city_coords)
    THEN FALSE
    ELSE GeodesicKm(city_coords) <= MAX_DISTANCE_KM

(***************************************************************************)
(* EventScraper.parse_eventim_event.  element is what the sub-element      *)
(* searches find: each of title, date, location, href is the stripped text *)
(* (or href) of the matching sub-element, None when there is none;         *)
(* malformed stands for an element on which a lookup raises.               *)
(***************************************************************************)
ticket_link_of(element, source) ==
  IF element.href = None THEN EmptyStr
  ELSE IF StartsWithSlash(element.href[1])
    THEN <<"https://www.">> \o source \o element.href[1]
    ELSE element.href[1]

parse_eventim_event(element, artist, source, geo_up, now) ==
  IF element.malformed THEN None
  ELSE
    LET title == GetOr(element.title, artist \o <<" - Event">>)
        date_str == GetOr(element.date, EmptyStr)
        location == GetOr(element.location, <<"Unknown">>)
        ticket_link == ticket_link_of(element, source)
        city_coords == get_city_coordinates(location, geo_up)
    IN IF city_coords # None /\ ~is_within_range(city_coords)
         THEN None
         ELSE Some([ title |-> title, artist |-> artist, date_str |-> date_str,
                     location |-> location, source |-> source,
                     ticket_link |-> ticket_link, coordinates |-> city_coords,
                     scraped_at |-> now ])

\* The loop over event_elements[:5] of scrape_eventim_pl / scrape_eventim_de:
\* geo_ups[k] tells whether the geocoding call for the k-th element answers.
RECURSIVE parse_elements(_, _, _, _, _, _)
parse_elements(elements, k, artist, source, geo_ups, now) ==
  IF k > Len(elements) THEN <<>>
  ELSE parse_eventim_event(elements[k], artist, source, geo_ups[k], now)
         \o parse_elements(elements, k + 1, artist, source, geo_ups, now)

(***************************************************************************)
(* TicketmasterScraper.parse_events.                                       *)
(***************************************************************************)
\* The venue's coordinates and the pre-filter.  Result: [drop, coordinates].
tm_coordinates(venue) ==
  IF venue.location = None THEN [drop |-> FALSE, coordinates |-> None]
  ELSE
    LET loc == venue.location[1]
        lat == GetOr(loc.latitude, 0)
        lon == GetOr(loc.longitude, 0)
    IN IF ~loc.numeric THEN [drop |-> TRUE, coordinates |-> None]
       ELSE IF lat # 0 /\ lon # 0
         THEN IF GeodesicRaises(<<lat, lon>>)
                THEN [drop |-> TRUE, coordinates |-> None]
              ELSE IF GeodesicKm(<<lat, lon>>) > TM_MAX_DISTANCE_KM
                THEN [drop |-> TRUE, coordinates |-> None]
              ELSE [drop |-> FALSE, coordinates |-> <<lat, lon>>]
         ELSE [drop |-> FALSE, coordinates |-> None]

\* One iteration of the loop over data["_embedded"]["events"].
parse_tm_event(event, artist, now) ==
  IF event.malformed THEN None
  ELSE
    LET name == GetOr(event.name, EmptyStr)
        url == GetOr(event.url, EmptyStr)
        date_str == GetOr(event.localDate, EmptyStr)
        venues == event.venues
        venue == venues[1]
        location ==
          IF venues # <<>>
            THEN GetOr(venue.city, EmptyStr) \o <<", ">>
                   \o GetOr(venue.country, EmptyStr)
            ELSE <<"Unknown">>
        geo == IF venues # <<>> THEN tm_coordinates(venue)
               ELSE [drop |-> FALSE, coordinates |-> None]
    IN IF geo.drop THEN None
       ELSE Some([ title |-> name, artist |-> artist, date_str |-> date_str,
                   location |-> location, source |-> TICKETMASTER,
                   ticket_link |-> url, coordinates |-> geo.coordinates,
                   scraped_at |-> now ])

RECURSIVE parse_tm_events(_, _, _, _)
parse_tm_events(evs, k, artist, now) ==
  IF k > Len(evs) THEN <<>>
  ELSE parse_tm_event(evs[k], artist, now) \o parse_tm_events(evs, k + 1, artist, now)

parse_events(data, artist, now) ==
  IF ~data.has_embedded \/ ~data.has_events THEN <<>>
  ELSE parse_tm_events(data.events, 1, artist, now)

(***************************************************************************)
(* Sessions.                                                               *)
(***************************************************************************)
\* Variant: close_session leaves the session as it is.
close_session_leak(sess) == sess

\* EventScraper.close_session: closes the session if there is one.
close_session(sess) == IF sess # "None" THEN "None" ELSE sess

\* Variant: the key check never takes the early return.
api_key_missing_never(key) == FALSE

\* "if not self.api_key" in TicketmasterScraper.scrape_events: the variable
\* is unset (None) or set to the empty string.
api_key_missing(key) == key = None \/ key = Some(EmptyStr)

(***************************************************************************)
(* What the remote services may answer during a run.                       *)
(***************************************************************************)
Element(title, date, location, href) ==
  [ malformed |-> FALSE, title |-> title, date |-> date,
    location |-> location, href |-> href ]

ElemBare == Element(None, None, None, None)

Venue(city, country, location) ==
  [ city |-> city, country |-> country, location |-> location ]

Loc(lat, lon) == [ latitude |-> lat, longitude |-> lon, numeric |-> TRUE ]

TmEvent(name, url, localDate, venues) ==
  [ malformed |-> FALSE, name |-> name, url |-> url, localDate |-> localDate,
    venues |-> venues ]

TmData(evs) == [ has_embedded |-> TRUE, has_events |-> TRUE, events |-> evs ]

TmBerlin ==
  TmEvent(Some(<<"Time Warp">>), Some(<<"https://tm/e1">>), Some(<<"2026-06-01">>),
          << Venue(Some(<<"Berlin">>), Some(<<"DE">>), Some(Loc(Some(52), Some(13)))) >>)

TmParis ==
  TmEvent(Some(<<"Rex Club">>), Some(<<"https://tm/e2">>), Some(<<"2026-07-01">>),
          << Venue(Some(<<"Paris">>), Some(<<"FR">>), Some(Loc(Some(48), Some(2)))) >>)

\* Bodies of the HTML search pages: the candidate elements find_all returns.
RunHtmlBodies == { <<ElemBare>> }

\* JSON bodies of the discovery API.
RunTmBodies == { TmData(<<TmBerlin, TmParis>>) }

Failure(kind) == [ kind |-> kind, body |-> <<>>, geo_ups |-> <<>> ]

HtmlResponses ==
  { Failure("exc"), Failure("non200") }
    \cup UNION { { [ kind |-> "ok", body |-> b, geo_ups |-> g ] :
                      g \in [(1..Len(b)) -> BOOLEAN] } : b \in RunHtmlBodies }

TmResponses ==
  { Failure("exc"), Failure("non200") }
    \cup { [ kind |-> "ok", body |-> d, geo_ups |-> <<>> ] : d \in RunTmBodies }

\* What the geocoding service may hold for the place name "Unknown": no
\* match, or a place of that name (here one beyond the radius).
UnknownAnswers == { None, <<48, 2>> }

ApiKeys == { None, Some(EmptyStr), Some(<<"KEY">>) }

HtmlAdapters == { "pl", "de" }

SourceOf(a) == IF a = "pl" THEN EVENTIM_PL ELSE EVENTIM_DE

At(a, step) == [ at |-> a, step |-> step ]

NoFetch == [ status |-> "none", produced |-> <<>> ]

NoOutcome == [ kind |-> "none", body |-> <<>> ]

IdleNorm ==
  [ kind |-> "idle", artist |-> <<>>, source |-> <<>>, raw |-> <<>>, calls |-> <<>> ]

(***************************************************************************)
(* manual_scrape.                                                          *)
(***************************************************************************)
RunInit ==
  /\ pc = At("main", "start")
  /\ api_key \in ApiKeys
  /\ session = "None"
  /\ tm_session = "None"
  /\ i = 1
  /\ events = [ a \in {"pl", "de", "tm"} |-> <<>> ]
  /\ all_events = <<>>
  /\ persisted = <<>>
  /\ pending = None
  /\ outcome = NoOutcome
  /\ clock = 0
  /\ unknown_place \in UnknownAnswers
  /\ fetched = [ a \in {"pl", "de", "tm"} |-> [ k \in 1..NumArtists |-> NoFetch ] ]
  /\ netlog = <<>>
  /\ opened = {}

Init == RunInit /\ norm = IdleNorm

\* Raising e out of the try block of manual_scrape.
Raise(e) ==
  /\ pending' = Some([ reason |-> e, at |-> pc.at ])
  /\ pc' = At("main", "except")

\* scraper = EventScraper(); the first adapter starts.
Start ==
  /\ pc = At("main", "start")
  /\ pc' = At("pl", "session")
  /\ UNCHANGED << api_key, session, tm_session, i, events, all_events, persisted,
                  pending, outcome, clock, unknown_place, fetched, netlog,
                  opened, norm >>

\* session = await self.get_session(): creates the session lazily; the
\* creation may fail.
get_session(a) ==
  /\ pc = At(a, "session")
  /\ IF session = "None"
       THEN \/ /\ session' = "open"
               /\ opened' = opened \cup {"scraper"}
               /\ pc' = At(a, "loop")
               /\ UNCHANGED pending
            \/ /\ Raise(<<"cannot create ClientSession">>)
               /\ UNCHANGED << session, opened >>
       ELSE /\ pc' = At(a, "loop")
            /\ UNCHANGED << session, opened, pending >>
  /\ i' = 1
  /\ UNCHANGED << api_key, tm_session, events, all_events, persisted, outcome,
                  clock, unknown_place, fetched, netlog, norm >>

\* What one iteration of the artist loop does with response r; an exception
\* leaves the try body before the sleep.
\* Variant: an exception ends the artist loop instead of moving on.
HtmlStep_abort(a, r, idx) ==
  IF r.kind = "exc"
    THEN [ pc |-> At(a, "loop"), i |-> NumArtists + 1 ]
    ELSE [ pc |-> At(a, "sleep"), i |-> idx ]

HtmlStep(a, r, idx) ==
  IF r.kind = "exc"
    THEN [ pc |-> At(a, "loop"), i |-> idx + 1 ]
    ELSE [ pc |-> At(a, "sleep"), i |-> idx ]

HtmlProduced(a, r, now) ==
  IF r.kind = "ok"
    THEN parse_elements(Take(r.body, MaxPerArtist), 1, TARGET_ARTISTS[i],
                        SourceOf(a), r.geo_ups, now)
    ELSE <<>>

\* One iteration of "for artist in TARGET_ARTISTS" up to the sleep: the GET,
\* the parse of the page and of its first five candidate elements.
HtmlFetch(a) ==
  /\ pc = At(a, "loop")
  /\ i <= NumArtists
  /\ \E r \in HtmlResponses :
       LET produced == HtmlProduced(a, r, clock + 1)
       IN /\ events' = [events EXCEPT ![a] = @ \o produced]
          /\ fetched' = [fetched EXCEPT ![a][i] =
                           [ status |-> r.kind, produced |-> produced ]]
          /\ pc' = HtmlStep(a, r, i).pc
          /\ i' = HtmlStep(a, r, i).i
  /\ netlog' = Append(netlog, [ adapter |-> a, artist |-> i, kind |-> "request" ])
  /\ clock' = clock + 1
  /\ UNCHANGED << api_key, session, tm_session, all_events, persisted, pending,
                  outcome, unknown_place, opened, norm >>

\* await asyncio.sleep(1)
HtmlSleep(a) ==
  /\ pc = At(a, "sleep")
  /\ netlog' = Append(netlog, [ adapter |-> a, artist |-> i, kind |-> "sleep" ])
  /\ i' = i + 1
  /\ pc' = At(a, "loop")
  /\ clock' = clock + 1
  /\ UNCHANGED << api_key, session, tm_session, events, all_events, persisted,
                  pending, outcome, unknown_place, fetched, opened, norm >>

\* return events
HtmlReturn(a) ==
  /\ pc = At(a, "loop")
  /\ i > NumArtists
  /\ pc' = IF a = "pl" THEN At("de", "session") ELSE At("tm", "start")
  /\ UNCHANGED << api_key, session, tm_session, i, events, all_events, persisted,
                  pending, outcome, clock, unknown_place, fetched, netlog,
                  opened, norm >>

(***************************************************************************)
(* TicketmasterScraper.scrape_events and search_artist_events.             *)
(***************************************************************************)
\* search_artist_events: a non-200 status or any exception yields [].
search_artist_events(r, artist, now) ==
  IF r.kind = "ok" THEN parse_events(r.body, artist, now) ELSE <<>>

\* tm_scraper = TicketmasterScraper(); scrape_events up to the first request:
\* the early return without a key, otherwise the session is opened.
scrape_events ==
  /\ pc = At("tm", "start")
  /\ IF api_key_missing(api_key)
       THEN /\ pc' = At("main", "save")
            /\ UNCHANGED << tm_session, opened, pending, i >>
       ELSE \/ /\ tm_session' = "open"
               /\ opened' = opened \cup {"tm"}
               /\ i' = 1
               /\ pc' = At("tm", "loop")
               /\ UNCHANGED pending
            \/ /\ Raise(<<"cannot create ClientSession">>)
               /\ UNCHANGED << tm_session, opened, i >>
  /\ UNCHANGED << api_key, session, events, all_events, persisted, outcome,
                  clock, unknown_place, fetched, netlog, norm >>

\* One iteration of "for artist in artists".
TmSearch ==
  /\ pc = At("tm", "loop")
  /\ i <= NumArtists
  /\ \E r \in TmResponses :
       LET produced == search_artist_events(r, TARGET_ARTISTS[i], clock + 1)
       IN /\ events' = [events EXCEPT !["tm"] = @ \o produced]
          /\ fetched' = [fetched EXCEPT !["tm"][i] =
                           [ status |-> r.kind, produced |-> produced ]]
  /\ netlog' = Append(netlog, [ adapter |-> "tm", artist |-> i, kind |-> "request" ])
  /\ i' = i + 1
  /\ clock' = clock + 1
  /\ UNCHANGED << pc, api_key, session, tm_session, all_events, persisted,
                  pending, outcome, unknown_place, opened, norm >>

\* Leaving "async with aiohttp.ClientSession() as session" and returning.
TmReturn ==
  /\ pc = At("tm", "loop")
  /\ i > NumArtists
  /\ tm_session' = "closed"
  /\ pc' = At("main", "save")
  /\ UNCHANGED << api_key, session, i, events, all_events, persisted, pending,
                  outcome, clock, unknown_place, fetched, netlog, opened, norm >>

(***************************************************************************)
(* The end of manual_scrape: aggregation, save_events_to_db, the response, *)
(* the except and finally clauses.                                         *)
(***************************************************************************)
Aggregate(evs) == evs["pl"] \o evs["de"] \o evs["tm"]

\* Variant: the eventim_de count repeats the eventim_pl count.
Summary_pl_twice(all, evs) ==
  [ kind |-> "ok",
    body |-> [ message |-> <<"Scraping completed successfully">>,
               total_events_found |-> Len(all),
               eventim_pl |-> Len(evs["pl"]),
               eventim_de |-> Len(evs["pl"]) ] ]

Summary(all, evs) ==
  [ kind |-> "ok",
    body |-> [ message |-> <<"Scraping completed successfully">>,
               total_events_found |-> Len(all),
               eventim_pl |-> Len(evs["pl"]),
               eventim_de |-> Len(evs["de"]) ] ]

HttpError(e) ==
  [ kind |-> "failed",
    body |-> [ status_code |-> 500, detail |-> <<"Scraping failed: ">> \o e ] ]

\* all_events = ...; await save_events_to_db(all_events); return {...}.
\* save_events_to_db returns at once on an empty list; otherwise it connects,
\* purges and inserts row by row, and any of these may raise (done rows stay).
SaveAndReturn ==
  /\ pc = At("main", "save")
  /\ all_events' = Aggregate(events)
  /\ IF all_events' = <<>>
       THEN /\ outcome' = Summary(all_events', events)
            /\ pc' = At("main", "finally")
            /\ UNCHANGED << persisted, pending >>
       ELSE \/ /\ persisted' = all_events'
               /\ outcome' = Summary(all_events', events)
               /\ pc' = At("main", "finally")
               /\ UNCHANGED pending
            \/ /\ \E done \in { 0, Len(all_events') - 1 } :
                    persisted' = SubSeq(all_events', 1, done)
               /\ Raise(<<"database error">>)
               /\ UNCHANGED outcome
  /\ UNCHANGED << api_key, session, tm_session, i, events, clock, unknown_place,
                  fetched, netlog, opened, norm >>

\* except Exception as e: raise HTTPException(500, f"Scraping failed: {e}")
Except ==
  /\ pc = At("main", "except")
  /\ outcome' = HttpError(pending[1].reason)
  /\ pc' = At("main", "finally")
  /\ UNCHANGED << api_key, session, tm_session, i, events, all_events, persisted,
                  pending, clock, unknown_place, fetched, netlog, opened, norm >>

\* finally: await scraper.close_session()
Finally ==
  /\ pc = At("main", "finally")
  /\ session' = close_session(session)
  /\ pc' = At("main", "done")
  /\ UNCHANGED << api_key, tm_session, i, events, all_events, persisted, pending,
                  outcome, clock, unknown_place, fetched, netlog, opened, norm >>

Next ==
  \/ Start
  \/ \E a \in HtmlAdapters : get_session(a)
  \/ \E a \in HtmlAdapters : HtmlFetch(a)
  \/ \E a \in HtmlAdapters : HtmlSleep(a)
  \/ \E a \in HtmlAdapters : HtmlReturn(a)
  \/ scrape_events
  \/ TmSearch
  \/ TmReturn
  \/ SaveAndReturn
  \/ Except
  \/ Finally

Spec == Init /\ [][Next]_vars

\* Every awaited step eventually returns or raises: the HTTP requests and the
\* geocoding lookups are bounded by timeouts, the sleep by its delay; the
\* database is taken to answer every statement (with a result or an error).
FairSpec == Spec /\ WF_vars(Next)

Done == pc = At("main", "done")

(***************************************************************************)
(* The normalizers taken alone: parse_eventim_event and parse_events       *)
(* applied, up to NormCalls times, to one raw payload drawn from the sets  *)
(* below.                                                                  *)
(***************************************************************************)
NormCalls == 2

Places == { <<"Berlin">>, <<"Milano">>, <<"Paris">>, <<"Nowhere">>, <<"Atlantis">> }

HtmlElements ==
  { Element(t, d, l, h) :
      t \in { None, Some(<<"Awakenings">>), Some(EmptyStr) },
      d \in { None, Some(<<"2026-05-01">>) },
      l \in { None } \cup { Some(p) : p \in Places },
      h \in { None, Some(<<"/", "event/1">>), Some(<<"https://tickets.example/e/1">>) } }
    \cup { [ ElemBare EXCEPT !.malformed = TRUE ] }

TmLocations ==
  { None, Some([ Loc(Some(52), Some(13)) EXCEPT !.numeric = FALSE ]) }
    \cup { Some(Loc(c[1], c[2])) :
             c \in { <<Some(52), Some(13)>>, <<Some(45), Some(9)>>,
                     <<Some(48), Some(2)>>, <<Some(51), Some(0)>>,
                     <<Some(0), Some(0)>>, <<Some(95), Some(17)>>,
                     <<None, Some(13)>> } }

TmVenues ==
  { Venue(Some(<<"Berlin">>), Some(<<"DE">>), l) : l \in TmLocations }
    \cup { Venue(None, None, l) : l \in TmLocations }

TmEvents ==
  { TmEvent(n, u, d, v) :
      n \in { None, Some(<<"Time Warp">>) },
      u \in { None, Some(<<"https://tm/e1">>) },
      d \in { None, Some(<<"2026-06-01">>) },
      v \in { <<>> } \cup { <<x>> : x \in TmVenues } }
    \cup { [ TmBerlin EXCEPT !.malformed = TRUE ] }

TmPayloads ==
  { [ TmData(<<>>) EXCEPT !.has_embedded = FALSE ],
    [ TmData(<<>>) EXCEPT !.has_events = FALSE ] }
    \cup { TmData(<<e>>) : e \in TmEvents }
    \cup { TmData(<<e, TmBerlin>>) : e \in TmEvents }

NormInputs ==
  { [ kind |-> "html", artist |-> a, source |-> s, raw |-> e, calls |-> <<>> ] :
      a \in { TARGET_ARTISTS[1] }, s \in { EVENTIM_PL, EVENTIM_DE }, e \in HtmlElements }
    \cup { [ kind |-> "api", artist |-> a, source |-> TICKETMASTER, raw |-> d,
             calls |-> <<>> ] :
             a \in { TARGET_ARTISTS[1] }, d \in TmPayloads }

NormInit ==
  /\ RunInit
  /\ api_key = None
  /\ norm \in NormInputs

\* One call of parse_eventim_event on the payload.
NormalizeHtml ==
  /\ norm.kind = "html"
  /\ Len(norm.calls) < NormCalls
  /\ \E geo_up \in BOOLEAN :
       norm' = [norm EXCEPT !.calls = Append(@,
                 [ geo_up |-> geo_up,
                   result |-> parse_eventim_event(norm.raw, norm.artist,
                                                  norm.source, geo_up, clock + 1) ])]
  /\ clock' = clock + 1
  /\ UNCHANGED << pc, api_key, session, tm_session, i, events, all_events,
                  persisted, pending, outcome, unknown_place, fetched, netlog,
                  opened >>

\* One call of parse_events on the payload.
NormalizeApi ==
  /\ norm.kind = "api"
  /\ Len(norm.calls) < NormCalls
  /\ norm' = [norm EXCEPT !.calls = Append(@,
                [ geo_up |-> TRUE,
                  result |-> parse_events(norm.raw, norm.artist, clock + 1) ])]
  /\ clock' = clock + 1
  /\ UNCHANGED << pc, api_key, session, tm_session, i, events, all_events,
                  persisted, pending, outcome, unknown_place, fetched, netlog,
                  opened >>

NormNext == NormalizeHtml \/ NormalizeApi

NormSpec == NormInit /\ [][NormNext]_vars

(***************************************************************************)
(* Properties.                                                             *)
(***************************************************************************)
Indices(seq) == 1..Len(seq)

\* The Events the normalizers returned so far.
NormEmitted ==
  UNION { { norm.calls[c].result[k] : k \in Indices(norm.calls[c].result) } :
            c \in Indices(norm.calls) }

RadiusOf(source) ==
  IF source = TICKETMASTER THEN TM_MAX_DISTANCE_KM ELSE MAX_DISTANCE_KM

PassedFilter(ev) ==
  \/ ev.coordinates = None
  \/ /\ ~GeodesicRaises(ev.coordinates)
     /\ GeodesicKm(ev.coordinates) <= RadiusOf(ev.source)

\* The API event carries venue coordinates: a latitude and a longitude, both
\* numbers of the valid domain.
VenueCoords(e) ==
  << e.venues[1].location[1].latitude[1], e.venues[1].location[1].longitude[1] >>

VenueGiven(e) ==
  /\ ~e.malformed
  /\ e.venues # <<>>
  /\ e.venues[1].location # None
  /\ e.venues[1].location[1].numeric
  /\ e.venues[1].location[1].latitude # None
  /\ e.venues[1].location[1].longitude # None
  /\ ~GeodesicRaises(VenueCoords(e))

VenueFar(e) == VenueGiven(e) /\ GeodesicKm(VenueCoords(e)) > TM_MAX_DISTANCE_KM

VenueNonZero(e) == VenueCoords(e)[1] # 0 /\ VenueCoords(e)[2] # 0

ApiCall(c) == norm.kind = "api" /\ c \in Indices(norm.calls)

HtmlCall(c) == norm.kind = "html" /\ c \in Indices(norm.calls)

ApiEvents == IF norm.raw.has_embedded /\ norm.raw.has_events THEN norm.raw.events ELSE <<>>

AllEmittedPassFilter == \A ev \in NormEmitted : PassedFilter(ev)

C6_DroppedOnlyWhenProvedFar ==
  /\ \A c \in Indices(norm.calls) :
       (HtmlCall(c) /\ ~norm.raw.malformed /\ norm.calls[c].result = None) =>
         LET coords == Gazetteer(GetOr(norm.raw.location, <<"Unknown">>))
         IN /\ norm.calls[c].geo_up
            /\ coords # None
            /\ ~GeodesicRaises(coords)
            /\ GeodesicKm(coords) > MAX_DISTANCE_KM
  /\ \A c \in Indices(norm.calls) :
       ApiCall(c) =>
         Len(ApiEvents) - Len(norm.calls[c].result)
           <= Cardinality({ k \in Indices(ApiEvents) :
                \/ ApiEvents[k].malformed
                \/ /\ ApiEvents[k].venues # <<>>
                   /\ ApiEvents[k].venues[1].location # None
                   /\ ~ApiEvents[k].venues[1].location[1].numeric
                \/ VenueFar(ApiEvents[k]) })

Defaulted(ev, artist) ==
  /\ ev.title = artist \o <<" - Event">>
  /\ ev.location = <<"Unknown">>
  /\ ev.ticket_link = EmptyStr
  /\ ev.date_str = EmptyStr

TmBare == TmEvent(None, None, None, <<>>)

\* C8: a payload without any optional field is normalized, never dropped,
\* to an Event with title "{artist} - Event", location "Unknown", ticketLink
\* "" and dateText "", from the HTML adapters and the API adapter alike; no
\* emitted Event has an empty title.
C8_DefaultsForMissingFields ==
  /\ \A c \in Indices(norm.calls) :
       (HtmlCall(c) /\ norm.raw = ElemBare) =>
         /\ norm.calls[c].result # None
         /\ Defaulted(norm.calls[c].result[1], norm.artist)
  /\ \A c \in Indices(norm.calls) :
       (ApiCall(c) /\ ApiEvents = <<TmBare>>) =>
         /\ Len(norm.calls[c].result) = 1
         /\ Defaulted(norm.calls[c].result[1], norm.artist)
  /\ \A ev \in NormEmitted : ev.title # EmptyStr

SameOutcome(r1, r2) ==
  \/ r1 = None /\ r2 = None
  \/ /\ r1 # None
     /\ r2 # None
     /\ [r1[1] EXCEPT !.scraped_at = 0] = [r2[1] EXCEPT !.scraped_at = 0]

\* C10: parse_eventim_event called twice on the same element, artist and
\* source gives the same outcome: absent both times, or two Events equal in
\* every field but scraped_at.
C10_NormalizeTwiceSame ==
  (norm.kind = "html" /\ Len(norm.calls) >= 2) =>
    SameOutcome(norm.calls[1].result, norm.calls[2].result)

Adapters == { "pl", "de", "tm" }

\* Adapter a failed for every artist, or raised out of its scrape method.
AlwaysThrows(a) ==
  \/ \A k \in 1..NumArtists : fetched[a][k].status = "exc"
  \/ pending # None /\ pending[1].at = a

Contains(all, evs) == \A k \in Indices(evs) : \E j \in Indices(all) : all[j] = evs[k]

\* The error count the response attributes to adapter a.
ErrorCount(a) ==
  IF "errors" \in DOMAIN outcome.body THEN outcome.body.errors[a] ELSE 0

\* C2: when one adapter always throws, the run still ends with a result that
\* holds every Event of the other two adapters and attributes a non-zero
\* error count to the failing adapter.
C2_AdapterIsolation ==
  Done =>
    \A a \in Adapters :
      AlwaysThrows(a) =>
        /\ outcome.kind = "ok"
        /\ \A b \in Adapters \ {a} : Contains(all_events, events[b])
        /\ ErrorCount(a) > 0

\* C3: when manual_scrape has returned or raised, no HTTP session opened
\* during the run is still open: neither the EventScraper session nor the
\* session of TicketmasterScraper.scrape_events.
C3_SessionsReleased ==
  Done => (session = "None" /\ tm_session # "open")

\* Both sessions were opened and the run ended in a failure.
C3_Witness ==
  /\ Done
  /\ opened = { "scraper", "tm" }
  /\ outcome.kind = "failed"

TotalEvents == Len(events["pl"]) + Len(events["de"]) + Len(events["tm"])

ResultReported ==
  /\ outcome.kind = "ok"
  /\ outcome.body.total_events_found = TotalEvents
  /\ outcome.body.eventim_pl = Len(events["pl"])
  /\ outcome.body.eventim_de = Len(events["de"])

FailureReported(reasons) ==
  /\ outcome.kind = "failed"
  /\ outcome.body.status_code = 500
  /\ pending # None
  /\ pending[1].reason \in reasons
  /\ outcome.body.detail = <<"Scraping failed: ">> \o pending[1].reason

\* Every request of every adapter failed (exception or non-200 status).
AllFetchesFailed ==
  \A a \in Adapters : \A k \in 1..NumArtists :
    fetched[a][k].status \in { "exc", "non200" }

TmRequests == { j \in Indices(netlog) : netlog[j].adapter = "tm" }

\* C5: without TM_API_KEY, scrape_events returns an empty list, raises
\* nothing, opens no session and issues no request.
C5_MissingKeyNoOp ==
  api_key = None =>
    /\ events["tm"] = <<>>
    /\ tm_session = "None"
    /\ "tm" \notin opened
    /\ TmRequests = {}
    /\ pc.at # "tm" \/ pc.step = "start"
    /\ pending = None \/ pending[1].at # "tm"

\* scrape_events has returned without a key and the run went on to its end.
C5_Witness ==
  /\ api_key = None
  /\ Done
  /\ outcome.kind = "ok"
  /\ outcome.body.total_events_found > 0

\* The artists adapter a requested, in order.
RECURSIVE RequestsOf(_, _)
RequestsOf(a, log) ==
  IF log = <<>> THEN <<>>
  ELSE (IF Head(log).adapter = a /\ Head(log).kind = "request"
          THEN <<Head(log).artist>> ELSE <<>>) \o RequestsOf(a, Tail(log))

RECURSIVE ProducedFrom(_, _)
ProducedFrom(a, k) ==
  IF k > NumArtists THEN <<>>
  ELSE fetched[a][k].produced \o ProducedFrom(a, k + 1)

\* The scrape method of adapter a has returned its list.
Returned(a) ==
  CASE a = "pl" -> \/ pc.at \in { "de", "tm" }
                   \/ /\ pc.at = "main" /\ pc.step # "start"
                      /\ (pending = None \/ pending[1].at # "pl")
    [] a = "de" -> \/ pc.at = "tm"
                   \/ /\ pc.at = "main" /\ pc.step # "start"
                      /\ (pending = None \/ pending[1].at \notin { "pl", "de" })
    [] OTHER    -> tm_session = "closed"

\* Adapter a has issued at least one request.
Requested(a) == \E k \in 1..NumArtists : fetched[a][k].status # "none"

\* C7: a non-200 response or an exception for one artist adds no event for
\* that artist and is not propagated; the adapter requests every later
\* artist, and its result holds the events of all other artists.
C7_PerArtistIsolation ==
  \A a \in Adapters :
    /\ events[a] = ProducedFrom(a, 1)
    /\ \A k \in 1..NumArtists :
         fetched[a][k].status \in { "exc", "non200" } => fetched[a][k].produced = <<>>
    /\ pending = None \/ pending[1].at # a \/ ~Requested(a)
    /\ Returned(a) =>
         /\ RequestsOf(a, netlog) = [ k \in 1..NumArtists |-> k ]
         /\ \A k \in 1..NumArtists : fetched[a][k].status # "none"

\* An HTML adapter returned the event of its second artist after the request
\* for its first artist raised.
C7_Witness ==
  /\ Returned("pl")
  /\ fetched["pl"][1].status = "exc"
  /\ fetched["pl"][2].status = "ok"
  /\ Len(events["pl"]) = 1
  /\ events["pl"][1].artist = TARGET_ARTISTS[2]

\* C9: between two consecutive requests of an HTML adapter there is a delay,
\* whatever the first request's outcome.
C9_DelayAfterEveryRequest ==
  \A j \in Indices(netlog) :
    ( /\ j < Len(netlog)
      /\ netlog[j].adapter \in HtmlAdapters
      /\ netlog[j].kind = "request"
      /\ netlog[j + 1].adapter = netlog[j].adapter )
    => netlog[j + 1].kind = "sleep"

=============================================================================
